---- MODULE Spec2Model ----
(***************************************************************************)
(* Marching Cubes isosurface extraction (src/MarchingCube): grid           *)
(* traversal, cube processing, edge interpolation, flat normals and PLY    *)
(* export, as run by main().                                               *)
(*                                                                         *)
(* Numbers.  A C++ float is modelled as an integer rounded to Prec         *)
(* significant bits with round-to-nearest-even (RoundF); Prec is 24 in the *)
(* program and small here, so that absorption (x + s == x) happens at      *)
(* small magnitudes.  Samples and interpolated coordinates are extended    *)
(* rationals <<n, d>>: d > 0 is the reduced fraction n/d, <<0,0>> is NaN,  *)
(* <<1,0>> is +inf and <<-1,0>> is -inf; interpolateVertex rounds each of  *)
(* its operations (RoundR).  compute_normals is evaluated exactly.         *)
(***************************************************************************)
EXTENDS Integers, Naturals, Sequences, FiniteSets, TLC

\* ------------------------------------------------------------------ bounds
Prec == 2
MaxCoord == 6
MaxStep == 2
MaxSpan == 2
MemCap == 45 * MaxSpan * MaxSpan * MaxSpan

\* --------------------------------------------------------- float arithmetic
\* The arithmetic is written as functions, which are applied to values.
Abs(a) == IF a < 0 THEN -a ELSE a

Pow2[n \in Nat] == IF n = 0 THEN 1 ELSE 2 * Pow2[n - 1]

\* exponent of the binade of a: the least e with a < 2^(Prec + e)
ExpOf[a \in Nat, e \in Nat] == IF a < Pow2[Prec + e] THEN e ELSE ExpOf[a, e + 1]

\* round to nearest representable value, ties to even
RoundF[v \in Int] ==
  LET a  == Abs(v)
      q  == Pow2[ExpOf[a, 0]]
      m  == a \div q
      lo == m * q
      r  == a - lo
      up == IF 2 * r > q \/ (2 * r = q /\ m % 2 = 1) THEN lo + q ELSE lo
  IN  IF v < 0 THEN -up ELSE up

FAdd(a, b) == RoundF[a + b]
FSub(a, b) == RoundF[a - b]

GCD[a \in Nat, b \in Nat] == IF b = 0 THEN a ELSE GCD[b, a % b]

Ext == Int \X Int
NaN == <<0, 0>>
PInf == <<1, 0>>
NInf == <<-1, 0>>
Num(k) == <<k, 1>>
Sgn(n) == IF n > 0 THEN 1 ELSE IF n < 0 THEN -1 ELSE 0
IsFinite(r) == r[2] # 0

Rat[n \in Int, d \in Int] ==
  IF d = 0 THEN <<Sgn(n), 0>>
  ELSE LET g == GCD[Abs(n), Abs(d)]
           s == IF d < 0 THEN -1 ELSE 1
       IN  <<(s * n) \div g, (s * d) \div g>>

RNeg[r \in Ext] == <<-r[1], r[2]>>

RAdd[r \in Ext, s \in Ext] ==
  IF r[2] # 0 /\ s[2] # 0 THEN Rat[r[1] * s[2] + s[1] * r[2], r[2] * s[2]]
  ELSE IF r = NaN \/ s = NaN THEN NaN
  ELSE IF r[2] = 0 /\ s[2] = 0 THEN (IF r = s THEN r ELSE NaN)
  ELSE IF r[2] = 0 THEN r ELSE s

RSub[r \in Ext, s \in Ext] == RAdd[r, RNeg[s]]

RMul[r \in Ext, s \in Ext] ==
  IF r[2] # 0 /\ s[2] # 0 THEN Rat[r[1] * s[1], r[2] * s[2]]
  ELSE IF r = NaN \/ s = NaN \/ r[1] = 0 \/ s[1] = 0 THEN NaN
  ELSE <<Sgn(r[1]) * Sgn(s[1]), 0>>

RDiv[r \in Ext, s \in Ext] ==
  IF r = NaN \/ s = NaN THEN NaN
  ELSE IF r[2] = 0 /\ s[2] = 0 THEN NaN
  ELSE IF s[2] = 0 THEN Num(0)
  ELSE IF r[2] = 0 THEN <<r[1] * (IF s[1] < 0 THEN -1 ELSE 1), 0>>
  ELSE Rat[r[1] * s[2], r[2] * s[1]]

\* r < s and r <= s on floats: false as soon as one side is NaN
RLt[r \in Ext, s \in Ext] ==
  /\ r # NaN
  /\ s # NaN
  /\ IF r[2] # 0 /\ s[2] # 0 THEN r[1] * s[2] < s[1] * r[2]
     ELSE IF r[2] = 0 THEN r = NInf /\ s # NInf
     ELSE s = PInf

RLeq[r \in Ext, s \in Ext] == r # NaN /\ s # NaN /\ ~RLt[s, r]

\* integer nearest to a / b (a >= 0, b > 0), ties to even
NearestEven[a \in Nat, b \in Nat] ==
  LET q == a \div b
      r == a % b
  IN  IF 2 * r > b \/ (2 * r = b /\ q % 2 = 1) THEN q + 1 ELSE q

\* least k with n * 2^k >= d * 2^(Prec - 1), and least e with n < d * 2^(Prec + e)
ScaleUp[n \in Nat, d \in Nat, k \in Nat] ==
  IF n * Pow2[k] >= d * Pow2[Prec - 1] THEN k ELSE ScaleUp[n, d, k + 1]

ScaleDown[n \in Nat, d \in Nat, e \in Nat] ==
  IF n < d * Pow2[Prec + e] THEN e ELSE ScaleDown[n, d, e + 1]

\* A real result rounded to the nearest float (Prec significant bits, ties
\* to even, exponent unbounded); infinities and NaN are kept.
RoundR[r \in Ext] ==
  IF r[2] = 0 \/ r[1] = 0 THEN r
  ELSE LET n  == Abs(r[1])
           up == ScaleUp[n, r[2], 0]
           dn == ScaleDown[n, r[2], 0]
           m  == NearestEven[n * Pow2[up], r[2] * Pow2[dn]]
       IN  Rat[Sgn(r[1]) * m * Pow2[dn], Pow2[up]]

\* the four float operations on samples and on interpolated coordinates
FlAdd[r \in Ext, s \in Ext] == RoundR[RAdd[r, s]]
FlSub[r \in Ext, s \in Ext] == RoundR[RSub[r, s]]
FlMul[r \in Ext, s \in Ext] == RoundR[RMul[r, s]]
FlDiv[r \in Ext, s \in Ext] == RoundR[RDiv[r, s]]

\* ------------------------------------------------------------ fixed tables
cubeVerts ==
  << <<0,0,0>>, <<1,0,0>>, <<1,0,1>>, <<0,0,1>>,
     <<0,1,0>>, <<1,1,0>>, <<1,1,1>>, <<0,1,1>> >>

edgeConnections_Diagonal ==
  << <<0,1>>, <<1,3>>, <<2,3>>, <<3,0>>,
     <<4,5>>, <<5,6>>, <<6,7>>, <<7,4>>,
     <<0,4>>, <<1,5>>, <<2,6>>, <<3,7>> >>

edgeConnections ==
  << <<0,1>>, <<1,2>>, <<2,3>>, <<3,0>>,
     <<4,5>>, <<5,6>>, <<6,7>>, <<7,4>>,
     <<0,4>>, <<1,5>>, <<2,6>>, <<3,7>> >>

marching_cubes_lut ==
  <<
    <<-1,-1,-1,-1,-1,-1,-1,-1,-1,-1,-1,-1,-1,-1,-1,-1>>,
    <<0,8,3,-1,-1,-1,-1,-1,-1,-1,-1,-1,-1,-1,-1,-1>>,
    <<0,1,9,-1,-1,-1,-1,-1,-1,-1,-1,-1,-1,-1,-1,-1>>,
    <<1,8,3,9,8,1,-1,-1,-1,-1,-1,-1,-1,-1,-1,-1>>,
    <<1,2,10,-1,-1,-1,-1,-1,-1,-1,-1,-1,-1,-1,-1,-1>>,
    <<0,8,3,1,2,10,-1,-1,-1,-1,-1,-1,-1,-1,-1,-1>>,
    <<9,2,10,0,2,9,-1,-1,-1,-1,-1,-1,-1,-1,-1,-1>>,
    <<2,8,3,2,10,8,10,9,8,-1,-1,-1,-1,-1,-1,-1>>,
    <<3,11,2,-1,-1,-1,-1,-1,-1,-1,-1,-1,-1,-1,-1,-1>>,
    <<0,11,2,8,11,0,-1,-1,-1,-1,-1,-1,-1,-1,-1,-1>>,
    <<1,9,0,2,3,11,-1,-1,-1,-1,-1,-1,-1,-1,-1,-1>>,
    <<1,11,2,1,9,11,9,8,11,-1,-1,-1,-1,-1,-1,-1>>,
    <<3,10,1,11,10,3,-1,-1,-1,-1,-1,-1,-1,-1,-1,-1>>,
    <<0,10,1,0,8,10,8,11,10,-1,-1,-1,-1,-1,-1,-1>>,
    <<3,9,0,3,11,9,11,10,9,-1,-1,-1,-1,-1,-1,-1>>,
    <<9,8,10,10,8,11,-1,-1,-1,-1,-1,-1,-1,-1,-1,-1>>,
    <<4,7,8,-1,-1,-1,-1,-1,-1,-1,-1,-1,-1,-1,-1,-1>>,
    <<4,3,0,7,3,4,-1,-1,-1,-1,-1,-1,-1,-1,-1,-1>>,
    <<0,1,9,8,4,7,-1,-1,-1,-1,-1,-1,-1,-1,-1,-1>>,
    <<4,1,9,4,7,1,7,3,1,-1,-1,-1,-1,-1,-1,-1>>,
    <<1,2,10,8,4,7,-1,-1,-1,-1,-1,-1,-1,-1,-1,-1>>,
    <<3,4,7,3,0,4,1,2,10,-1,-1,-1,-1,-1,-1,-1>>,
    <<9,2,10,9,0,2,8,4,7,-1,-1,-1,-1,-1,-1,-1>>,
    <<2,10,9,2,9,7,2,7,3,7,9,4,-1,-1,-1,-1>>,
    <<8,4,7,3,11,2,-1,-1,-1,-1,-1,-1,-1,-1,-1,-1>>,
    <<11,4,7,11,2,4,2,0,4,-1,-1,-1,-1,-1,-1,-1>>,
    <<9,0,1,8,4,7,2,3,11,-1,-1,-1,-1,-1,-1,-1>>,
    <<4,7,11,9,4,11,9,11,2,9,2,1,-1,-1,-1,-1>>,
    <<3,10,1,3,11,10,7,8,4,-1,-1,-1,-1,-1,-1,-1>>,
    <<1,11,10,1,4,11,1,0,4,7,11,4,-1,-1,-1,-1>>,
    <<4,7,8,9,0,11,9,11,10,11,0,3,-1,-1,-1,-1>>,
    <<4,7,11,4,11,9,9,11,10,-1,-1,-1,-1,-1,-1,-1>>,
    <<9,5,4,-1,-1,-1,-1,-1,-1,-1,-1,-1,-1,-1,-1,-1>>,
    <<9,5,4,0,8,3,-1,-1,-1,-1,-1,-1,-1,-1,-1,-1>>,
    <<0,5,4,1,5,0,-1,-1,-1,-1,-1,-1,-1,-1,-1,-1>>,
    <<8,5,4,8,3,5,3,1,5,-1,-1,-1,-1,-1,-1,-1>>,
    <<1,2,10,9,5,4,-1,-1,-1,-1,-1,-1,-1,-1,-1,-1>>,
    <<3,0,8,1,2,10,4,9,5,-1,-1,-1,-1,-1,-1,-1>>,
    <<5,2,10,5,4,2,4,0,2,-1,-1,-1,-1,-1,-1,-1>>,
    <<2,10,5,3,2,5,3,5,4,3,4,8,-1,-1,-1,-1>>,
    <<9,5,4,2,3,11,-1,-1,-1,-1,-1,-1,-1,-1,-1,-1>>,
    <<0,11,2,0,8,11,4,9,5,-1,-1,-1,-1,-1,-1,-1>>,
    <<0,5,4,0,1,5,2,3,11,-1,-1,-1,-1,-1,-1,-1>>,
    <<2,1,5,2,5,8,2,8,11,4,8,5,-1,-1,-1,-1>>,
    <<10,3,11,10,1,3,9,5,4,-1,-1,-1,-1,-1,-1,-1>>,
    <<4,9,5,0,8,1,8,10,1,8,11,10,-1,-1,-1,-1>>,
    <<5,4,0,5,0,11,5,11,10,11,0,3,-1,-1,-1,-1>>,
    <<5,4,8,5,8,10,10,8,11,-1,-1,-1,-1,-1,-1,-1>>,
    <<9,7,8,5,7,9,-1,-1,-1,-1,-1,-1,-1,-1,-1,-1>>,
    <<9,3,0,9,5,3,5,7,3,-1,-1,-1,-1,-1,-1,-1>>,
    <<0,7,8,0,1,7,1,5,7,-1,-1,-1,-1,-1,-1,-1>>,
    <<1,5,3,3,5,7,-1,-1,-1,-1,-1,-1,-1,-1,-1,-1>>,
    <<9,7,8,9,5,7,10,1,2,-1,-1,-1,-1,-1,-1,-1>>,
    <<10,1,2,9,5,0,5,3,0,5,7,3,-1,-1,-1,-1>>,
    <<8,0,2,8,2,5,8,5,7,10,5,2,-1,-1,-1,-1>>,
    <<2,10,5,2,5,3,3,5,7,-1,-1,-1,-1,-1,-1,-1>>,
    <<7,9,5,7,8,9,3,11,2,-1,-1,-1,-1,-1,-1,-1>>,
    <<9,5,7,9,7,2,9,2,0,2,7,11,-1,-1,-1,-1>>,
    <<2,3,11,0,1,8,1,7,8,1,5,7,-1,-1,-1,-1>>,
    <<11,2,1,11,1,7,7,1,5,-1,-1,-1,-1,-1,-1,-1>>,
    <<9,5,8,8,5,7,10,1,3,10,3,11,-1,-1,-1,-1>>,
    <<5,7,0,5,0,9,7,11,0,1,0,10,11,10,0,-1>>,
    <<11,10,0,11,0,3,10,5,0,8,0,7,5,7,0,-1>>,
    <<11,10,5,7,11,5,-1,-1,-1,-1,-1,-1,-1,-1,-1,-1>>,
    <<10,6,5,-1,-1,-1,-1,-1,-1,-1,-1,-1,-1,-1,-1,-1>>,
    <<0,8,3,5,10,6,-1,-1,-1,-1,-1,-1,-1,-1,-1,-1>>,
    <<9,0,1,5,10,6,-1,-1,-1,-1,-1,-1,-1,-1,-1,-1>>,
    <<1,8,3,1,9,8,5,10,6,-1,-1,-1,-1,-1,-1,-1>>,
    <<1,6,5,2,6,1,-1,-1,-1,-1,-1,-1,-1,-1,-1,-1>>,
    <<1,6,5,1,2,6,3,0,8,-1,-1,-1,-1,-1,-1,-1>>,
    <<9,6,5,9,0,6,0,2,6,-1,-1,-1,-1,-1,-1,-1>>,
    <<5,9,8,5,8,2,5,2,6,3,2,8,-1,-1,-1,-1>>,
    <<2,3,11,10,6,5,-1,-1,-1,-1,-1,-1,-1,-1,-1,-1>>,
    <<11,0,8,11,2,0,10,6,5,-1,-1,-1,-1,-1,-1,-1>>,
    <<0,1,9,2,3,11,5,10,6,-1,-1,-1,-1,-1,-1,-1>>,
    <<5,10,6,1,9,2,9,11,2,9,8,11,-1,-1,-1,-1>>,
    <<6,3,11,6,5,3,5,1,3,-1,-1,-1,-1,-1,-1,-1>>,
    <<0,8,11,0,11,5,0,5,1,5,11,6,-1,-1,-1,-1>>,
    <<3,11,6,0,3,6,0,6,5,0,5,9,-1,-1,-1,-1>>,
    <<6,5,9,6,9,11,11,9,8,-1,-1,-1,-1,-1,-1,-1>>,
    <<5,10,6,4,7,8,-1,-1,-1,-1,-1,-1,-1,-1,-1,-1>>,
    <<4,3,0,4,7,3,6,5,10,-1,-1,-1,-1,-1,-1,-1>>,
    <<1,9,0,5,10,6,8,4,7,-1,-1,-1,-1,-1,-1,-1>>,
    <<10,6,5,1,9,7,1,7,3,7,9,4,-1,-1,-1,-1>>,
    <<6,1,2,6,5,1,4,7,8,-1,-1,-1,-1,-1,-1,-1>>,
    <<1,2,5,5,2,6,3,0,4,3,4,7,-1,-1,-1,-1>>,
    <<8,4,7,9,0,5,0,6,5,0,2,6,-1,-1,-1,-1>>,
    <<7,3,9,7,9,4,3,2,9,5,9,6,2,6,9,-1>>,
    <<3,11,2,7,8,4,10,6,5,-1,-1,-1,-1,-1,-1,-1>>,
    <<5,10,6,4,7,2,4,2,0,2,7,11,-1,-1,-1,-1>>,
    <<0,1,9,4,7,8,2,3,11,5,10,6,-1,-1,-1,-1>>,
    <<9,2,1,9,11,2,9,4,11,7,11,4,5,10,6,-1>>,
    <<8,4,7,3,11,5,3,5,1,5,11,6,-1,-1,-1,-1>>,
    <<5,1,11,5,11,6,1,0,11,7,11,4,0,4,11,-1>>,
    <<0,5,9,0,6,5,0,3,6,11,6,3,8,4,7,-1>>,
    <<6,5,9,6,9,11,4,7,9,7,11,9,-1,-1,-1,-1>>,
    <<10,4,9,6,4,10,-1,-1,-1,-1,-1,-1,-1,-1,-1,-1>>,
    <<4,10,6,4,9,10,0,8,3,-1,-1,-1,-1,-1,-1,-1>>,
    <<10,0,1,10,6,0,6,4,0,-1,-1,-1,-1,-1,-1,-1>>,
    <<8,3,1,8,1,6,8,6,4,6,1,10,-1,-1,-1,-1>>,
    <<1,4,9,1,2,4,2,6,4,-1,-1,-1,-1,-1,-1,-1>>,
    <<3,0,8,1,2,9,2,4,9,2,6,4,-1,-1,-1,-1>>,
    <<0,2,4,4,2,6,-1,-1,-1,-1,-1,-1,-1,-1,-1,-1>>,
    <<8,3,2,8,2,4,4,2,6,-1,-1,-1,-1,-1,-1,-1>>,
    <<10,4,9,10,6,4,11,2,3,-1,-1,-1,-1,-1,-1,-1>>,
    <<0,8,2,2,8,11,4,9,10,4,10,6,-1,-1,-1,-1>>,
    <<3,11,2,0,1,6,0,6,4,6,1,10,-1,-1,-1,-1>>,
    <<6,4,1,6,1,10,4,8,1,2,1,11,8,11,1,-1>>,
    <<9,6,4,9,3,6,9,1,3,11,6,3,-1,-1,-1,-1>>,
    <<8,11,1,8,1,0,11,6,1,9,1,4,6,4,1,-1>>,
    <<3,11,6,3,6,0,0,6,4,-1,-1,-1,-1,-1,-1,-1>>,
    <<6,4,8,11,6,8,-1,-1,-1,-1,-1,-1,-1,-1,-1,-1>>,
    <<7,10,6,7,8,10,8,9,10,-1,-1,-1,-1,-1,-1,-1>>,
    <<0,7,3,0,10,7,0,9,10,6,7,10,-1,-1,-1,-1>>,
    <<10,6,7,1,10,7,1,7,8,1,8,0,-1,-1,-1,-1>>,
    <<10,6,7,10,7,1,1,7,3,-1,-1,-1,-1,-1,-1,-1>>,
    <<1,2,6,1,6,8,1,8,9,8,6,7,-1,-1,-1,-1>>,
    <<2,6,9,2,9,1,6,7,9,0,9,3,7,3,9,-1>>,
    <<7,8,0,7,0,6,6,0,2,-1,-1,-1,-1,-1,-1,-1>>,
    <<7,3,2,6,7,2,-1,-1,-1,-1,-1,-1,-1,-1,-1,-1>>,
    <<2,3,11,10,6,8,10,8,9,8,6,7,-1,-1,-1,-1>>,
    <<2,0,7,2,7,11,0,9,7,6,7,10,9,10,7,-1>>,
    <<1,8,0,1,7,8,1,10,7,6,7,10,2,3,11,-1>>,
    <<11,2,1,11,1,7,10,6,1,6,7,1,-1,-1,-1,-1>>,
    <<8,9,6,8,6,7,9,1,6,11,6,3,1,3,6,-1>>,
    <<0,9,1,11,6,7,-1,-1,-1,-1,-1,-1,-1,-1,-1,-1>>,
    <<7,8,0,7,0,6,3,11,0,11,6,0,-1,-1,-1,-1>>,
    <<7,11,6,-1,-1,-1,-1,-1,-1,-1,-1,-1,-1,-1,-1,-1>>,
    <<7,6,11,-1,-1,-1,-1,-1,-1,-1,-1,-1,-1,-1,-1,-1>>,
    <<3,0,8,11,7,6,-1,-1,-1,-1,-1,-1,-1,-1,-1,-1>>,
    <<0,1,9,11,7,6,-1,-1,-1,-1,-1,-1,-1,-1,-1,-1>>,
    <<8,1,9,8,3,1,11,7,6,-1,-1,-1,-1,-1,-1,-1>>,
    <<10,1,2,6,11,7,-1,-1,-1,-1,-1,-1,-1,-1,-1,-1>>,
    <<1,2,10,3,0,8,6,11,7,-1,-1,-1,-1,-1,-1,-1>>,
    <<2,9,0,2,10,9,6,11,7,-1,-1,-1,-1,-1,-1,-1>>,
    <<6,11,7,2,10,3,10,8,3,10,9,8,-1,-1,-1,-1>>,
    <<7,2,3,6,2,7,-1,-1,-1,-1,-1,-1,-1,-1,-1,-1>>,
    <<7,0,8,7,6,0,6,2,0,-1,-1,-1,-1,-1,-1,-1>>,
    <<2,7,6,2,3,7,0,1,9,-1,-1,-1,-1,-1,-1,-1>>,
    <<1,6,2,1,8,6,1,9,8,8,7,6,-1,-1,-1,-1>>,
    <<10,7,6,10,1,7,1,3,7,-1,-1,-1,-1,-1,-1,-1>>,
    <<10,7,6,1,7,10,1,8,7,1,0,8,-1,-1,-1,-1>>,
    <<0,3,7,0,7,10,0,10,9,6,10,7,-1,-1,-1,-1>>,
    <<7,6,10,7,10,8,8,10,9,-1,-1,-1,-1,-1,-1,-1>>,
    <<6,8,4,11,8,6,-1,-1,-1,-1,-1,-1,-1,-1,-1,-1>>,
    <<3,6,11,3,0,6,0,4,6,-1,-1,-1,-1,-1,-1,-1>>,
    <<8,6,11,8,4,6,9,0,1,-1,-1,-1,-1,-1,-1,-1>>,
    <<9,4,6,9,6,3,9,3,1,11,3,6,-1,-1,-1,-1>>,
    <<6,8,4,6,11,8,2,10,1,-1,-1,-1,-1,-1,-1,-1>>,
    <<1,2,10,3,0,11,0,6,11,0,4,6,-1,-1,-1,-1>>,
    <<4,11,8,4,6,11,0,2,9,2,10,9,-1,-1,-1,-1>>,
    <<10,9,3,10,3,2,9,4,3,11,3,6,4,6,3,-1>>,
    <<8,2,3,8,4,2,4,6,2,-1,-1,-1,-1,-1,-1,-1>>,
    <<0,4,2,4,6,2,-1,-1,-1,-1,-1,-1,-1,-1,-1,-1>>,
    <<1,9,0,2,3,4,2,4,6,4,3,8,-1,-1,-1,-1>>,
    <<1,9,4,1,4,2,2,4,6,-1,-1,-1,-1,-1,-1,-1>>,
    <<8,1,3,8,6,1,8,4,6,6,10,1,-1,-1,-1,-1>>,
    <<10,1,0,10,0,6,6,0,4,-1,-1,-1,-1,-1,-1,-1>>,
    <<4,6,3,4,3,8,6,10,3,0,3,9,10,9,3,-1>>,
    <<10,9,4,6,10,4,-1,-1,-1,-1,-1,-1,-1,-1,-1,-1>>,
    <<4,9,5,7,6,11,-1,-1,-1,-1,-1,-1,-1,-1,-1,-1>>,
    <<0,8,3,4,9,5,11,7,6,-1,-1,-1,-1,-1,-1,-1>>,
    <<5,0,1,5,4,0,7,6,11,-1,-1,-1,-1,-1,-1,-1>>,
    <<11,7,6,8,3,4,3,5,4,3,1,5,-1,-1,-1,-1>>,
    <<9,5,4,10,1,2,7,6,11,-1,-1,-1,-1,-1,-1,-1>>,
    <<6,11,7,1,2,10,0,8,3,4,9,5,-1,-1,-1,-1>>,
    <<7,6,11,5,4,10,4,2,10,4,0,2,-1,-1,-1,-1>>,
    <<3,4,8,3,5,4,3,2,5,10,5,2,11,7,6,-1>>,
    <<7,2,3,7,6,2,5,4,9,-1,-1,-1,-1,-1,-1,-1>>,
    <<9,5,4,0,8,6,0,6,2,6,8,7,-1,-1,-1,-1>>,
    <<3,6,2,3,7,6,1,5,0,5,4,0,-1,-1,-1,-1>>,
    <<6,2,8,6,8,7,2,1,8,4,8,5,1,5,8,-1>>,
    <<9,5,4,10,1,6,1,7,6,1,3,7,-1,-1,-1,-1>>,
    <<1,6,10,1,7,6,1,0,7,8,7,0,9,5,4,-1>>,
    <<4,0,10,4,10,5,0,3,10,6,10,7,3,7,10,-1>>,
    <<7,6,10,7,10,8,5,4,10,4,8,10,-1,-1,-1,-1>>,
    <<6,9,5,6,11,9,11,8,9,-1,-1,-1,-1,-1,-1,-1>>,
    <<3,6,11,0,6,3,0,5,6,0,9,5,-1,-1,-1,-1>>,
    <<0,11,8,0,5,11,0,1,5,5,6,11,-1,-1,-1,-1>>,
    <<6,11,3,6,3,5,5,3,1,-1,-1,-1,-1,-1,-1,-1>>,
    <<1,2,10,9,5,11,9,11,8,11,5,6,-1,-1,-1,-1>>,
    <<0,11,3,0,6,11,0,9,6,5,6,9,1,2,10,-1>>,
    <<11,8,5,11,5,6,8,0,5,10,5,2,0,2,5,-1>>,
    <<6,11,3,6,3,5,2,10,3,10,5,3,-1,-1,-1,-1>>,
    <<5,8,9,5,2,8,5,6,2,3,8,2,-1,-1,-1,-1>>,
    <<9,5,6,9,6,0,0,6,2,-1,-1,-1,-1,-1,-1,-1>>,
    <<1,5,8,1,8,0,5,6,8,3,8,2,6,2,8,-1>>,
    <<1,5,6,2,1,6,-1,-1,-1,-1,-1,-1,-1,-1,-1,-1>>,
    <<1,3,6,1,6,10,3,8,6,5,6,9,8,9,6,-1>>,
    <<10,1,0,10,0,6,9,5,0,5,6,0,-1,-1,-1,-1>>,
    <<0,3,8,5,6,10,-1,-1,-1,-1,-1,-1,-1,-1,-1,-1>>,
    <<10,5,6,-1,-1,-1,-1,-1,-1,-1,-1,-1,-1,-1,-1,-1>>,
    <<11,5,10,7,5,11,-1,-1,-1,-1,-1,-1,-1,-1,-1,-1>>,
    <<11,5,10,11,7,5,8,3,0,-1,-1,-1,-1,-1,-1,-1>>,
    <<5,11,7,5,10,11,1,9,0,-1,-1,-1,-1,-1,-1,-1>>,
    <<10,7,5,10,11,7,9,8,1,8,3,1,-1,-1,-1,-1>>,
    <<11,1,2,11,7,1,7,5,1,-1,-1,-1,-1,-1,-1,-1>>,
    <<0,8,3,1,2,7,1,7,5,7,2,11,-1,-1,-1,-1>>,
    <<9,7,5,9,2,7,9,0,2,2,11,7,-1,-1,-1,-1>>,
    <<7,5,2,7,2,11,5,9,2,3,2,8,9,8,2,-1>>,
    <<2,5,10,2,3,5,3,7,5,-1,-1,-1,-1,-1,-1,-1>>,
    <<8,2,0,8,5,2,8,7,5,10,2,5,-1,-1,-1,-1>>,
    <<9,0,1,5,10,3,5,3,7,3,10,2,-1,-1,-1,-1>>,
    <<9,8,2,9,2,1,8,7,2,10,2,5,7,5,2,-1>>,
    <<1,3,5,3,7,5,-1,-1,-1,-1,-1,-1,-1,-1,-1,-1>>,
    <<0,8,7,0,7,1,1,7,5,-1,-1,-1,-1,-1,-1,-1>>,
    <<9,0,3,9,3,5,5,3,7,-1,-1,-1,-1,-1,-1,-1>>,
    <<9,8,7,5,9,7,-1,-1,-1,-1,-1,-1,-1,-1,-1,-1>>,
    <<5,8,4,5,10,8,10,11,8,-1,-1,-1,-1,-1,-1,-1>>,
    <<5,0,4,5,11,0,5,10,11,11,3,0,-1,-1,-1,-1>>,
    <<0,1,9,8,4,10,8,10,11,10,4,5,-1,-1,-1,-1>>,
    <<10,11,4,10,4,5,11,3,4,9,4,1,3,1,4,-1>>,
    <<2,5,1,2,8,5,2,11,8,4,5,8,-1,-1,-1,-1>>,
    <<0,4,11,0,11,3,4,5,11,2,11,1,5,1,11,-1>>,
    <<0,2,5,0,5,9,2,11,5,4,5,8,11,8,5,-1>>,
    <<9,4,5,2,11,3,-1,-1,-1,-1,-1,-1,-1,-1,-1,-1>>,
    <<2,5,10,3,5,2,3,4,5,3,8,4,-1,-1,-1,-1>>,
    <<5,10,2,5,2,4,4,2,0,-1,-1,-1,-1,-1,-1,-1>>,
    <<3,10,2,3,5,10,3,8,5,4,5,8,0,1,9,-1>>,
    <<5,10,2,5,2,4,1,9,2,9,4,2,-1,-1,-1,-1>>,
    <<8,4,5,8,5,3,3,5,1,-1,-1,-1,-1,-1,-1,-1>>,
    <<0,4,5,1,0,5,-1,-1,-1,-1,-1,-1,-1,-1,-1,-1>>,
    <<8,4,5,8,5,3,9,0,5,0,3,5,-1,-1,-1,-1>>,
    <<9,4,5,-1,-1,-1,-1,-1,-1,-1,-1,-1,-1,-1,-1,-1>>,
    <<4,11,7,4,9,11,9,10,11,-1,-1,-1,-1,-1,-1,-1>>,
    <<0,8,3,4,9,7,9,11,7,9,10,11,-1,-1,-1,-1>>,
    <<1,10,11,1,11,4,1,4,0,7,4,11,-1,-1,-1,-1>>,
    <<3,1,4,3,4,8,1,10,4,7,4,11,10,11,4,-1>>,
    <<4,11,7,9,11,4,9,2,11,9,1,2,-1,-1,-1,-1>>,
    <<9,7,4,9,11,7,9,1,11,2,11,1,0,8,3,-1>>,
    <<11,7,4,11,4,2,2,4,0,-1,-1,-1,-1,-1,-1,-1>>,
    <<11,7,4,11,4,2,8,3,4,3,2,4,-1,-1,-1,-1>>,
    <<2,9,10,2,7,9,2,3,7,7,4,9,-1,-1,-1,-1>>,
    <<9,10,7,9,7,4,10,2,7,8,7,0,2,0,7,-1>>,
    <<3,7,10,3,10,2,7,4,10,1,10,0,4,0,10,-1>>,
    <<1,10,2,8,7,4,-1,-1,-1,-1,-1,-1,-1,-1,-1,-1>>,
    <<4,9,1,4,1,7,7,1,3,-1,-1,-1,-1,-1,-1,-1>>,
    <<4,9,1,4,1,7,0,8,1,8,7,1,-1,-1,-1,-1>>,
    <<4,0,3,7,4,3,-1,-1,-1,-1,-1,-1,-1,-1,-1,-1>>,
    <<4,8,7,-1,-1,-1,-1,-1,-1,-1,-1,-1,-1,-1,-1,-1>>,
    <<9,10,8,10,11,8,-1,-1,-1,-1,-1,-1,-1,-1,-1,-1>>,
    <<3,0,9,3,9,11,11,9,10,-1,-1,-1,-1,-1,-1,-1>>,
    <<0,1,10,0,10,8,8,10,11,-1,-1,-1,-1,-1,-1,-1>>,
    <<3,1,10,11,3,10,-1,-1,-1,-1,-1,-1,-1,-1,-1,-1>>,
    <<1,2,11,1,11,9,9,11,8,-1,-1,-1,-1,-1,-1,-1>>,
    <<3,0,9,3,9,11,1,2,9,2,11,9,-1,-1,-1,-1>>,
    <<0,2,11,8,0,11,-1,-1,-1,-1,-1,-1,-1,-1,-1,-1>>,
    <<3,2,11,-1,-1,-1,-1,-1,-1,-1,-1,-1,-1,-1,-1,-1>>,
    <<2,3,8,2,8,10,10,8,9,-1,-1,-1,-1,-1,-1,-1>>,
    <<9,10,2,0,9,2,-1,-1,-1,-1,-1,-1,-1,-1,-1,-1>>,
    <<2,3,8,2,8,10,0,1,8,1,10,8,-1,-1,-1,-1>>,
    <<1,10,2,-1,-1,-1,-1,-1,-1,-1,-1,-1,-1,-1,-1,-1>>,
    <<1,3,8,9,1,8,-1,-1,-1,-1,-1,-1,-1,-1,-1,-1>>,
    <<0,9,1,-1,-1,-1,-1,-1,-1,-1,-1,-1,-1,-1,-1,-1>>,
    <<0,3,8,-1,-1,-1,-1,-1,-1,-1,-1,-1,-1,-1,-1,-1>>,
    <<-1,-1,-1,-1,-1,-1,-1,-1,-1,-1,-1,-1,-1,-1,-1,-1>>
  >>

LutRow_NextRow(cubeIdx) == marching_cubes_lut[((cubeIdx + 1) % 256) + 1]

\* Row of the lookup table for a configuration index (0-based, as in C++).
LutRow(cubeIdx) == marching_cubes_lut[cubeIdx + 1]

\* ------------------------------------------------------------ scalar field
\* The callback f is an input.  The fields explored are the two-valued
\* fields that are periodic in the parity of each coordinate: bit
\* (x mod 2) + 2 (y mod 2) + 4 (z mod 2) of f.pat selects f.hi, else f.lo.
\* A sample is a float: a finite number, an infinity or NaN.
FiniteShape == [lo |-> Num(-1), hi |-> Num(2)]
FieldShapes == {FiniteShape, [lo |-> Num(-1), hi |-> NaN], [lo |-> NInf, hi |-> Num(2)]}
Patterns == 0 .. 255
PatternStride == 17
GridPatterns == {p \in Patterns : p % PatternStride = 0}
IsoValues == {0, 2}

Bit(n, i) == (n \div Pow2[i]) % 2

Field(fld, p) ==
  IF Bit(fld.pat, (p[1] % 2) + 2 * (p[2] % 2) + 4 * (p[3] % 2)) = 1
    THEN fld.hi ELSE fld.lo

\* ------------------------------------------------------- interpolateVertex
InterpComp_FromP2(p1c, p2c, valp1, valp2, iso) ==
  LET t == FlDiv[FlSub[Num(iso), valp1], FlSub[valp2, valp1]]
  IN  FlAdd[Num(p2c), FlMul[t, Num(FSub(p2c, p1c))]]

InterpComp_SwappedSamples(p1c, p2c, valp1, valp2, iso) ==
  LET t == FlDiv[FlSub[Num(iso), valp2], FlSub[valp1, valp2]]
  IN  FlAdd[Num(p1c), FlMul[t, Num(FSub(p2c, p1c))]]

\* t = (isovalue - valp1) / (valp2 - valp1); p1 + t * (p2 - p1), one
\* component, every operation rounded to a float
InterpComp(p1c, p2c, valp1, valp2, iso) ==
  LET t == FlDiv[FlSub[Num(iso), valp1], FlSub[valp2, valp1]]
  IN  FlAdd[Num(p1c), FlMul[t, Num(FSub(p2c, p1c))]]

interpolateVertex(p1, p2, valp1, valp2, iso) ==
  << InterpComp(p1[1], p2[1], valp1, valp2, iso),
     InterpComp(p1[2], p2[2], valp1, valp2, iso),
     InterpComp(p1[3], p2[3], valp1, valp2, iso) >>

\* ---------------------------------------------------------- cube processing
\* pos[i] = cubePos + cubeVerts[i] * stepsize, corner i in 0..7
CornerPos(cubePos, step) ==
  [i \in 0 .. 7 |->
     << FAdd(cubePos[1], cubeVerts[i + 1][1] * step),
        FAdd(cubePos[2], cubeVerts[i + 1][2] * step),
        FAdd(cubePos[3], cubeVerts[i + 1][3] * step) >>]

CornerVal(fld, ps) == [i \in 0 .. 7 |-> Field(fld, ps[i])]

Below_OrEqual(v, iso) == RLeq[v, Num(iso)]

\* val[i] < isovalue
Below(v, iso) == RLt[v, Num(iso)]

RECURSIVE CubeIndexFrom(_, _, _)
CubeIndexFrom(vs, iso, i) ==
  IF i > 7 THEN 0
  ELSE (IF Below(vs[i], iso) THEN Pow2[i] ELSE 0) + CubeIndexFrom(vs, iso, i + 1)

CubeIndex_SkipCorner0(vs, iso) == CubeIndexFrom(vs, iso, 1)

\* int cubeIndex = 0; for (i = 0; i < 8; ++i) if (val[i] < isovalue) cubeIndex |= 1 << i;
CubeIndex(vs, iso) == CubeIndexFrom(vs, iso, 0)

\* edgeVertex[e] for one edge e in 0..11
EdgeAt(ps, vs, iso, e) ==
  LET v0 == edgeConnections[e + 1][1]
      v1 == edgeConnections[e + 1][2]
  IN  interpolateVertex(ps[v0], ps[v1], vs[v0], vs[v1], iso)

\* for (int e = 0; e < 12; ++e) edgeVertex[e] = interpolateVertex(...)
EdgeVertex(ps, vs, iso) ==
  LET t == << EdgeAt(ps, vs, iso, 0), EdgeAt(ps, vs, iso, 1), EdgeAt(ps, vs, iso, 2),
              EdgeAt(ps, vs, iso, 3), EdgeAt(ps, vs, iso, 4), EdgeAt(ps, vs, iso, 5),
              EdgeAt(ps, vs, iso, 6), EdgeAt(ps, vs, iso, 7), EdgeAt(ps, vs, iso, 8),
              EdgeAt(ps, vs, iso, 9), EdgeAt(ps, vs, iso, 10), EdgeAt(ps, vs, iso, 11) >>
  IN  [e \in 0 .. 11 |-> t[e + 1]]

TriFloats_TwoVertices(ev, row, i) ==
  << ev[row[i + 1]][1], ev[row[i + 1]][2], ev[row[i + 1]][3],
     ev[row[i + 2]][1], ev[row[i + 2]][2], ev[row[i + 2]][3] >>

\* The nine floats one triangle appends (j = 0, 1, 2).
TriFloats(ev, row, i) ==
  << ev[row[i + 1]][1], ev[row[i + 1]][2], ev[row[i + 1]][3],
     ev[row[i + 2]][1], ev[row[i + 2]][2], ev[row[i + 2]][3],
     ev[row[i + 3]][1], ev[row[i + 3]][2], ev[row[i + 3]][3] >>

\* for (int i = 0; triEdges[i] != -1; i += 3): i is the 0-based index.
RECURSIVE BuildTriangles(_, _, _)
BuildTriangles(ev, row, i) ==
  IF row[i + 1] = -1 THEN << >>
  ELSE TriFloats(ev, row, i) \o BuildTriangles(ev, row, i + 3)

CellOutput(ps, vs, iso) ==
  LET row == LutRow(CubeIndex(vs, iso))
  IN  IF row[1] = -1 THEN << >>
      ELSE BuildTriangles(EdgeVertex(ps, vs, iso), row, 0)

\* --------------------------------------------------------- compute_normals
Vec3 == Ext \X Ext \X Ext
IntVec3 == Int \X Int \X Int

VSub[a \in Vec3, b \in Vec3] == << RSub[a[1], b[1]], RSub[a[2], b[2]], RSub[a[3], b[3]] >>

\* glm::cross(a, b)
Cross[a \in Vec3, b \in Vec3] ==
  << RSub[RMul[a[2], b[3]], RMul[b[2], a[3]]],
     RSub[RMul[a[3], b[1]], RMul[b[3], a[1]]],
     RSub[RMul[a[1], b[2]], RMul[b[1], a[2]]] >>

\* The unit vector along a non-zero integer vector a.  A component is
\* <<p, l>>, standing for p / sqrt(l), where (p1, p2, p3) is the primitive
\* integer vector along a and l = p1^2 + p2^2 + p3^2.
UnitAlong[a \in IntVec3] ==
  LET g == GCD[Abs(a[1]), GCD[Abs(a[2]), Abs(a[3])]]
      p == << a[1] \div g, a[2] \div g, a[3] \div g >>
      l == p[1] * p[1] + p[2] * p[2] + p[3] * p[3]
  IN  << <<p[1], l>>, <<p[2], l>>, <<p[3], l>> >>

LCM[a \in Nat, b \in Nat] == (a \div GCD[a, b]) * b

\* a finite rational vector scaled by the least common denominator
Scaled[v \in Vec3] ==
  LET m == LCM[v[1][2], LCM[v[2][2], v[3][2]]]
  IN  << v[1][1] * (m \div v[1][2]), v[2][1] * (m \div v[2][2]),
         v[3][1] * (m \div v[3][2]) >>

\* glm::normalize(v) = v * inversesqrt(dot(v, v)); <<0, 0>> is NaN.  A zero
\* vector gives 0 * inf = NaN in every component; an infinite component
\* gives inf * 0 = NaN there and 0 elsewhere.
Normalize[v \in Vec3] ==
  IF v[1] = NaN \/ v[2] = NaN \/ v[3] = NaN THEN <<NaN, NaN, NaN>>
  ELSE IF v[1][2] = 0 \/ v[2][2] = 0 \/ v[3][2] = 0
    THEN << IF v[1][2] = 0 THEN NaN ELSE Num(0),
            IF v[2][2] = 0 THEN NaN ELSE Num(0),
            IF v[3][2] = 0 THEN NaN ELSE Num(0) >>
  ELSE IF v[1][1] = 0 /\ v[2][1] = 0 /\ v[3][1] = 0 THEN <<NaN, NaN, NaN>>
  ELSE UnitAlong[Scaled[v]]

PushNormal_Once(n) == n

PushNormal_Twice(n) == n \o n

\* for (int j = 0; j < 3; ++j) normals.push_back(normal.x / .y / .z)
PushNormal(n) == n \o n \o n

TriangleNormal_Clockwise(vs, i) ==
  LET v0 == << vs[i + 1], vs[i + 2], vs[i + 3] >>
      v1 == << vs[i + 4], vs[i + 5], vs[i + 6] >>
      v2 == << vs[i + 7], vs[i + 8], vs[i + 9] >>
  IN  Normalize[Cross[VSub[v2, v0], VSub[v1, v0]]]

\* The normal of the triangle stored at vs[i .. i+8] (0-based i).
TriangleNormal(vs, i) ==
  LET v0 == << vs[i + 1], vs[i + 2], vs[i + 3] >>
      v1 == << vs[i + 4], vs[i + 5], vs[i + 6] >>
      v2 == << vs[i + 7], vs[i + 8], vs[i + 9] >>
  IN  Normalize[Cross[VSub[v1, v0], VSub[v2, v0]]]

\* for (size_t i = 0; i < vertices.size(); i += 9).  An iteration whose
\* reads run past the end of the array is undefined behaviour: the loop is
\* cut there and the caller records the fault (NormalsInBounds).
RECURSIVE NormalsFrom(_, _)
NormalsFrom(vs, i) ==
  IF ~(i < Len(vs)) \/ i + 8 >= Len(vs) THEN << >>
  ELSE PushNormal(TriangleNormal(vs, i)) \o NormalsFrom(vs, i + 9)

compute_normals(vs) == NormalsFrom(vs, 0)

NormalsInBounds(vs) ==
  \A i \in 0 .. Len(vs) : (i % 9 = 0 /\ i < Len(vs)) => i + 8 < Len(vs)

\* --------------------------------------------------------------- write_ply
\* operator<< of an unsigned integer: its decimal digits.
RECURSIVE FormatNat(_)
FormatNat(n) == IF n < 10 THEN <<n>> ELSE Append(FormatNat(n \div 10), n % 10)

RECURSIVE ParseNat(_)
ParseNat(ds) ==
  IF Len(ds) = 0 THEN 0
  ELSE 10 * ParseNat(SubSeq(ds, 1, Len(ds) - 1)) + ds[Len(ds)]

Filename == "output.ply"

PlyHeader(numVertices) ==
  << <<"ply">>,
     <<"format", "ascii", "1.0">>,
     <<"element", "vertex", FormatNat(numVertices)>>,
     <<"property", "float", "x">>,
     <<"property", "float", "y">>,
     <<"property", "float", "z">>,
     <<"property", "float", "nx">>,
     <<"property", "float", "ny">>,
     <<"property", "float", "nz">>,
     <<"end_header">> >>

NumVertices_Floats(vs) == Len(vs)

\* size_t numVertices = vertices.size() / 3;
NumVertices(vs) == Len(vs) \div 3

\* One line per vertex: the six numbers streamed, in order.  Their decimal
\* rendering is not modelled.
PlyBody(vs, ns, n) ==
  [i \in 1 .. n |->
     << vs[3 * (i - 1) + 1], vs[3 * (i - 1) + 2], vs[3 * (i - 1) + 3],
        ns[3 * (i - 1) + 1], ns[3 * (i - 1) + 2], ns[3 * (i - 1) + 3] >>]

PlyInBounds(vs, ns) ==
  \A i \in 0 .. NumVertices(vs) - 1 : 3 * i + 2 < Len(vs) /\ 3 * i + 2 < Len(ns)

\* A reader of the file: the count declared by the header and the lines
\* that follow end_header.
HeaderLine(lines) ==
  CHOOSE k \in 1 .. Len(lines) :
    Len(lines[k]) = 3 /\ lines[k][1] = "element" /\ lines[k][2] = "vertex"

HeaderCount(lines) == ParseNat(lines[HeaderLine(lines)][3])

EndHeader(lines) == CHOOSE k \in 1 .. Len(lines) : lines[k] = <<"end_header">>

BodyLines(lines) == SubSeq(lines, EndHeader(lines) + 1, Len(lines))

\* ------------------------------------------------------------------- state
VARIABLES
  f, isovalue, min, max, stepsize,         \* arguments of marching_cubes
  pc,                                      \* control point
  x, y, z,                                 \* loop variables
  pos, val, cubeIndex,                     \* locals of the last cell
  cellStart,                               \* vertices.size() before the last cell
  sampled,                                 \* f has been called
  allBelow,                                \* every sample so far was < isovalue
  bodyParity,                              \* parity of the number of cell bodies run
  vertices, normals,                       \* the two flat arrays
  oob,                                     \* an array was read out of bounds
  fileOpen, fileLines,                     \* output.ply: stream state, content
  cerr, cout,                              \* diagnostics
  call, result,                            \* a direct call of one function
  visited,                                 \* origins of the cells processed
  revisited,                               \* some origin was processed twice
  owner,                                   \* per triangle of vertices, its cell
  water,                                   \* statics of src/Water/camera.cpp
  viewer, camera,                          \* globals of src/MarchingCube/main.cpp
  event,                                   \* the viewer event delivered last
  leftHeld,                                \* the last left-button event was a press
  drag                                     \* cursor events since that press, the
                                           \* last of them, and lastX/lastY at the press

vars == << f, isovalue, min, max, stepsize, pc, x, y, z, pos, val,
           cubeIndex, cellStart, sampled, allBelow, bodyParity, vertices,
           normals, oob,
           fileOpen, fileLines, cerr, cout, call, result,
           visited, revisited, owner, water, viewer, camera,
           event, leftHeld, drag >>

args == << f, isovalue, min, max, stepsize >>
cellLocals == << pos, val, cubeIndex, cellStart, sampled, allBelow, bodyParity >>
io == << oob, fileOpen, fileLines, cerr, cout >>
direct == << call, result >>
history == << visited, revisited, owner >>
gui == << water, viewer, camera, event, leftHeld, drag >>

Coords == {c \in 0 .. MaxCoord : RoundF[c] = c}
Steps == {s \in -1 .. MaxStep : RoundF[s] = s}
WideSteps == {s \in MaxStep + 1 .. 3 * MaxStep : RoundF[s] = s}

NoPos == [i \in 0 .. 7 |-> <<0, 0, 0>>]
NoVal == [i \in 0 .. 7 |-> Num(0)]

\* Every pattern on the unit cell at the origin; a family of patterns on
\* every choice of bounds and step, the grid being at most MaxSpan cells wide
\* when the step is positive; every pattern on one cell whose step is large
\* against its origin, so that a far corner min + stepsize is rounded.
InitArgs ==
  /\ isovalue \in IsoValues
  /\ \/ /\ f \in [pat : Patterns, lo : {s.lo : s \in FieldShapes},
                    hi : {s.hi : s \in FieldShapes}]
        /\ [lo |-> f.lo, hi |-> f.hi] \in FieldShapes
        /\ min = 0
        /\ max = 1
        /\ stepsize = 1
     \/ /\ f \in [pat : GridPatterns, lo : {FiniteShape.lo}, hi : {FiniteShape.hi}]
        /\ min \in Coords
        /\ max \in Coords
        /\ stepsize \in Steps
        /\ max - min <= MaxSpan * (IF stepsize > 0 THEN stepsize ELSE 1)
     \/ /\ f \in [pat : Patterns, lo : {FiniteShape.lo}, hi : {FiniteShape.hi}]
        /\ min = 1
        /\ max = 2
        /\ stepsize \in WideSteps

NoCall == [fn |-> "none"]
NoResult == << >>

\* ---- src/Water/camera.cpp.  Angles are counted in units of 0.02 rad (one
\* key step) and cursor coordinates in units of 4 pixels, so that
\* sensitivity (0.005 rad per pixel) is one unit of angle per unit of cursor.
WaterThetaInit == 79
WaterPhiInit == 39
WaterPhiMin == 5
WaterPhiMax == 157
WaterKeyStep == 1

WaterInit ==
  water = [theta |-> WaterThetaInit, phi |-> WaterPhiInit, lastX |-> -1, lastY |-> -1,
           rotating |-> FALSE, firstCall |-> TRUE]

\* ---- src/MarchingCube/main.cpp and Camera.cpp.  Angles are counted in
\* units of 0.1 rad and cursor coordinates in the number of pixels that
\* turns the camera by one unit (mouseSensitivity is 0.1 degree per pixel);
\* r is counted in units of scrollSensitivity.
CameraRInit == 50
CameraThetaInit == 8
CameraPhiInit == 8
CameraMinPhi == 1
CameraMaxPhi == 30

NoEvent == [kind |-> "none"]
NoDrag == [events |-> 0, pos |-> << 0, 0 >>, leftover |-> << 0, 0 >>]

ViewerInit ==
  /\ viewer = [mousePressed |-> FALSE, lastX |-> 0, lastY |-> 0, firstMouse |-> TRUE]
  /\ camera = [r |-> CameraRInit, theta |-> CameraThetaInit, phi |-> CameraPhiInit]
  /\ event = NoEvent
  /\ leftHeld = FALSE
  /\ drag = NoDrag

GuiInit == WaterInit /\ ViewerInit

InitLocals ==
  /\ x = min
  /\ y = min
  /\ z = min
  /\ pos = NoPos
  /\ val = NoVal
  /\ cubeIndex = 0
  /\ cellStart = 0
  /\ sampled = FALSE
  /\ allBelow = TRUE
  /\ bodyParity = 0
  /\ vertices = << >>
  /\ normals = << >>
  /\ oob = FALSE
  /\ fileOpen = FALSE
  /\ fileLines = << >>
  /\ cerr = << >>
  /\ cout = << >>
  /\ visited = {}
  /\ revisited = FALSE
  /\ owner = << >>

Init ==
  /\ InitArgs
  /\ pc = "mc_x"
  /\ InitLocals
  /\ call = NoCall
  /\ result = NoResult
  /\ GuiInit

\* ---------------------------------------------------------- marching_cubes
InRange_Inclusive(c, hi) == c <= hi

\* the test of the three loops: x < max, y < max, z < max
InRange(c, hi) == c < hi

\* for (float x = min; x < max; x += stepsize)
XLoopEnter ==
  /\ pc = "mc_x"
  /\ InRange(x, max)
  /\ y' = min
  /\ pc' = "mc_y"
  /\ UNCHANGED << gui, direct, history, args, x, z, cellLocals, vertices, normals, io >>

\* return vertices;
MarchingCubesReturn ==
  /\ pc = "mc_x"
  /\ ~InRange(x, max)
  /\ pc' = "normals"
  /\ UNCHANGED << gui, direct, history, args, x, y, z, cellLocals, vertices, normals, io >>

YLoopEnter_NoReset ==
  /\ pc = "mc_y"
  /\ InRange(y, max)
  /\ pc' = "mc_z"
  /\ UNCHANGED << gui, direct, history, args, x, y, z, cellLocals, vertices, normals, io >>

\* for (float y = min; y < max; y += stepsize)
YLoopEnter ==
  /\ pc = "mc_y"
  /\ InRange(y, max)
  /\ z' = min
  /\ pc' = "mc_z"
  /\ UNCHANGED << gui, direct, history, args, x, y, cellLocals, vertices, normals, io >>

YLoopExit_NoAdvance ==
  /\ pc = "mc_y"
  /\ ~InRange(y, max)
  /\ pc' = "mc_x"
  /\ UNCHANGED << gui, direct, history, args, x, y, z, cellLocals, vertices, normals, io >>

\* the y loop ends: x += stepsize
YLoopExit ==
  /\ pc = "mc_y"
  /\ ~InRange(y, max)
  /\ x' = FAdd(x, stepsize)
  /\ pc' = "mc_x"
  /\ UNCHANGED << gui, direct, history, args, y, z, cellLocals, vertices, normals, io >>

CellBody_KeepsFirstSamples(o) ==
  \E ps \in {CornerPos(o, stepsize)} :
  \E vs \in {IF sampled THEN val ELSE CornerVal(f, ps)} :
  \E out \in {CellOutput(ps, vs, isovalue)} :
    /\ pos' = ps
    /\ val' = vs
    /\ cubeIndex' = CubeIndex(vs, isovalue)
    /\ sampled' = TRUE
    /\ allBelow' = (allBelow /\ \A i \in 0 .. 7 : Below(vs[i], isovalue))
    /\ cellStart' = Len(vertices)
    /\ bodyParity' = 1 - bodyParity
    /\ visited' = visited \cup {o}
    /\ revisited' = (revisited \/ o \in visited)
    /\ IF Len(vertices) + Len(out) > MemCap
         THEN /\ pc' = "aborted"
              /\ UNCHANGED << vertices, owner >>
         ELSE /\ vertices' = vertices \o out
              /\ owner' = owner \o [k \in 1 .. (Len(out) \div 9) |-> o]
              /\ pc' = pc

CellBody_Prepends(o) ==
  \E ps \in {CornerPos(o, stepsize)} :
  \E vs \in {CornerVal(f, ps)} :
  \E out \in {CellOutput(ps, vs, isovalue)} :
    /\ pos' = ps
    /\ val' = vs
    /\ cubeIndex' = CubeIndex(vs, isovalue)
    /\ sampled' = TRUE
    /\ allBelow' = (allBelow /\ \A i \in 0 .. 7 : Below(vs[i], isovalue))
    /\ cellStart' = Len(vertices)
    /\ bodyParity' = 1 - bodyParity
    /\ visited' = visited \cup {o}
    /\ revisited' = (revisited \/ o \in visited)
    /\ IF Len(vertices) + Len(out) > MemCap
         THEN /\ pc' = "aborted"
              /\ UNCHANGED << vertices, owner >>
         ELSE /\ vertices' = out \o vertices
              /\ owner' = [k \in 1 .. (Len(out) \div 9) |-> o] \o owner
              /\ pc' = pc

\* The body of the z loop for the cell at origin o: corners, samples,
\* configuration index, table row, edge vertices, triangles appended.
\* push_back beyond the available memory throws std::bad_alloc, which
\* nothing catches.
CellBody(o) ==
  \E ps \in {CornerPos(o, stepsize)} :
  \E vs \in {CornerVal(f, ps)} :
  \E out \in {CellOutput(ps, vs, isovalue)} :
    /\ pos' = ps
    /\ val' = vs
    /\ cubeIndex' = CubeIndex(vs, isovalue)
    /\ sampled' = TRUE
    /\ allBelow' = (allBelow /\ \A i \in 0 .. 7 : Below(vs[i], isovalue))
    /\ cellStart' = Len(vertices)
    /\ bodyParity' = 1 - bodyParity
    /\ visited' = visited \cup {o}
    /\ revisited' = (revisited \/ o \in visited)
    /\ IF Len(vertices) + Len(out) > MemCap
         THEN /\ pc' = "aborted"
              /\ UNCHANGED << vertices, owner >>
         ELSE /\ vertices' = vertices \o out
              /\ owner' = owner \o [k \in 1 .. (Len(out) \div 9) |-> o]
              /\ pc' = pc

\* One iteration of the z loop: the cell body, then z += stepsize.
ProcessCell ==
  /\ pc = "mc_z"
  /\ InRange(z, max)
  /\ CellBody(<<x, y, z>>)
  /\ z' = (IF pc' = "aborted" THEN z ELSE FAdd(z, stepsize))
  /\ UNCHANGED << gui, direct, args, x, y, normals, io >>

\* the z loop ends: y += stepsize
ZLoopExit ==
  /\ pc = "mc_z"
  /\ ~InRange(z, max)
  /\ y' = FAdd(y, stepsize)
  /\ pc' = "mc_y"
  /\ UNCHANGED << gui, direct, history, args, x, z, cellLocals, vertices, normals, io >>

\* ---------------------------------------------------------------- main
\* auto normals = compute_normals(vertices);
ComputeNormals ==
  /\ pc = "normals"
  /\ normals' = compute_normals(vertices)
  /\ oob' = (oob \/ ~NormalsInBounds(vertices))
  /\ pc' = "ply_open"
  /\ UNCHANGED << gui, direct, history, args, x, y, z, cellLocals, vertices, fileOpen, fileLines,
                  cerr, cout >>

\* std::ofstream file(filename); succeeds: the file is created or truncated
WritePlyOpen ==
  /\ pc = "ply_open"
  /\ fileOpen' = TRUE
  /\ fileLines' = << >>
  /\ pc' = "ply_header"
  /\ UNCHANGED << gui, direct, history, args, x, y, z, cellLocals, vertices, normals, oob, cerr, cout >>

WritePlyOpenFail_NoReturn ==
  /\ pc = "ply_open"
  /\ cerr' = Append(cerr, <<"Failed to open file: ", Filename>>)
  /\ pc' = "ply_header"
  /\ UNCHANGED << gui, direct, history, args, x, y, z, cellLocals, vertices, normals, oob,
                  fileOpen, fileLines, cout >>

\* if (!file.is_open()) { std::cerr << ...; return; }
WritePlyOpenFail ==
  /\ pc = "ply_open"
  /\ cerr' = Append(cerr, <<"Failed to open file: ", Filename>>)
  /\ pc' = "upload"
  /\ UNCHANGED << gui, direct, history, args, x, y, z, cellLocals, vertices, normals, oob,
                  fileOpen, fileLines, cout >>

WritePlyHeader ==
  /\ pc = "ply_header"
  /\ fileLines' = fileLines \o PlyHeader(NumVertices(vertices))
  /\ pc' = "ply_body"
  /\ UNCHANGED << gui, direct, history, args, x, y, z, cellLocals, vertices, normals, oob,
                  fileOpen, cerr, cout >>

\* for (size_t i = 0; i < numVertices; ++i) file << ... << "\n";
WritePlyBody ==
  /\ pc = "ply_body"
  /\ IF PlyInBounds(vertices, normals)
       THEN /\ fileLines' = fileLines \o PlyBody(vertices, normals, NumVertices(vertices))
            /\ oob' = oob
       ELSE /\ oob' = TRUE
            /\ UNCHANGED fileLines
  /\ pc' = "ply_close"
  /\ UNCHANGED << gui, direct, history, args, x, y, z, cellLocals, vertices, normals,
                  fileOpen, cerr, cout >>

WritePlyClose_LeaveOpen ==
  /\ pc = "ply_close"
  /\ cout' = Append(cout, <<"Wrote ", Filename, " with ",
                            FormatNat(NumVertices(vertices)), " vertices.">>)
  /\ pc' = "upload"
  /\ UNCHANGED << gui, direct, history, args, x, y, z, cellLocals, vertices, normals, oob,
                  fileOpen, fileLines, cerr >>

\* file.close(); std::cout << "Wrote " << ...;
WritePlyClose ==
  /\ pc = "ply_close"
  /\ fileOpen' = FALSE
  /\ cout' = Append(cout, <<"Wrote ", Filename, " with ",
                            FormatNat(NumVertices(vertices)), " vertices.">>)
  /\ pc' = "upload"
  /\ UNCHANGED << gui, direct, history, args, x, y, z, cellLocals, vertices, normals, oob,
                  fileLines, cerr >>

Next ==
  \/ XLoopEnter
  \/ MarchingCubesReturn
  \/ YLoopEnter
  \/ YLoopExit
  \/ ProcessCell
  \/ ZLoopExit
  \/ ComputeNormals
  \/ WritePlyOpen
  \/ WritePlyOpenFail
  \/ WritePlyHeader
  \/ WritePlyBody
  \/ WritePlyClose

Spec == Init /\ [][Next]_vars

\* Fairness: main is a single thread that keeps running while it has a next
\* statement, so a step that stays enabled is eventually taken.
\* The runs of two fields, one that yields no triangle anywhere and one
\* that yields some, over every choice of bounds and step.
LoopPatterns == {p \in GridPatterns : p <= PatternStride}

InitLoop ==
  /\ Init
  /\ f.pat \in LoopPatterns
  /\ [lo |-> f.lo, hi |-> f.hi] = FiniteShape
  /\ isovalue = 0

FairSpec == InitLoop /\ [][Next]_vars /\ WF_vars(Next)

\* ------------------------------------------------- cells taken in any order
\* The cell body of marching_cubes run once on every cell of the reference
\* traversal, the cells being taken in an order of the scheduler's choice.
\* The grid has two cells per axis, at origins 1 and 3; the far corners of
\* the cells at 3 are rounded when Prec is 2.
AnyOrderPatterns == {1, 85}

\* the floats min, fl(min + stepsize), fl(fl(min + stepsize) + stepsize), ...
\* that are below max
RECURSIVE AccumFrom(_)
AccumFrom(c) ==
  IF ~(c < max) THEN {}
  ELSE IF FAdd(c, stepsize) = c THEN {c}
  ELSE {c} \cup AccumFrom(FAdd(c, stepsize))

AccumCoords == AccumFrom(min)
AccumCells == AccumCoords \X AccumCoords \X AccumCoords

AnyOrderInit ==
  /\ f \in [pat : AnyOrderPatterns, lo : {FiniteShape.lo}, hi : {FiniteShape.hi}]
  /\ isovalue \in IsoValues
  /\ min = 1
  /\ max = 4
  /\ stepsize = 2
  /\ pc = "any_order"
  /\ InitLocals
  /\ call = NoCall
  /\ result = NoResult
  /\ GuiInit

ProcessAnyCell ==
  /\ pc = "any_order"
  /\ \E o \in AccumCells \ visited :
       /\ x' = o[1]
       /\ y' = o[2]
       /\ z' = o[3]
       /\ CellBody(o)
  /\ UNCHANGED << gui, direct, args, normals, io >>

AnyOrderNext == ProcessAnyCell

AnyOrderSpec == AnyOrderInit /\ [][AnyOrderNext]_vars

\* ------------------------------------------------------------- direct calls
\* interpolateVertex and compute_normals are exported by marching.hpp: each
\* is called here on its own, on arguments of the caller's choice.
MaxTri == 1

UnitCoords == {c \in -MaxCoord .. MaxCoord : RoundF[c] = c}
UnitPoints == {<<a, b, 0>> : a \in UnitCoords, b \in {0, 1}}
UnitSamples == -1 .. 2

InterpCalls ==
  [fn : {"interpolateVertex"}, p1 : UnitPoints, p2 : UnitPoints,
   valp1 : UnitSamples, valp2 : UnitSamples, isovalue : UnitSamples]

TriPoints == (0 .. MaxTri) \X (0 .. MaxTri) \X (0 .. MaxTri)

\* the nine floats of one triangle
Tri(v0, v1, v2) ==
  << Num(v0[1]), Num(v0[2]), Num(v0[3]), Num(v1[1]), Num(v1[2]), Num(v1[3]),
     Num(v2[1]), Num(v2[2]), Num(v2[3]) >>

\* one triangle, or a triangle followed by the same one wound the other way
NormalCalls ==
  [fn : {"compute_normals"},
   vertices : {Tri(a, b, c) : a \in TriPoints, b \in TriPoints, c \in TriPoints}
                \cup {Tri(a, b, c) \o Tri(a, c, b) :
                        a \in TriPoints, b \in TriPoints, c \in TriPoints}]

\* marching_cubes is not running
PipelineIdle ==
  /\ f = [pat |-> 0, lo |-> FiniteShape.lo, hi |-> FiniteShape.hi]
  /\ isovalue = 0
  /\ min = 0
  /\ max = 0
  /\ stepsize = 1
  /\ pc = "idle"
  /\ InitLocals

UnitInit ==
  /\ PipelineIdle
  /\ call \in InterpCalls \cup NormalCalls
  /\ result = NoResult
  /\ GuiInit

CallInterpolateVertex ==
  /\ call.fn = "interpolateVertex"
  /\ result = NoResult
  /\ result' = interpolateVertex(call.p1, call.p2, Num(call.valp1),
                                  Num(call.valp2), call.isovalue)
  /\ UNCHANGED << gui, call, history, args, pc, x, y, z, cellLocals, vertices, normals, io >>

CallComputeNormals ==
  /\ call.fn = "compute_normals"
  /\ result = NoResult
  /\ result' = compute_normals(call.vertices)
  /\ UNCHANGED << gui, call, history, args, pc, x, y, z, cellLocals, vertices, normals, io >>

UnitNext ==
  \/ CallInterpolateVertex
  \/ CallComputeNormals

UnitSpec == UnitInit /\ [][UnitNext]_vars

\* ------------------------------------------------------------ Water camera
MaxCursor == 2
MaxTurn == 1
MaxOvershoot == 3

Buttons == {"LEFT", "RIGHT"}
ButtonActions == {"PRESS", "RELEASE"}
ArrowKeys == {"LEFT", "RIGHT", "UP", "DOWN"}
WaterCursorX == 0 .. 1
WaterCursorY == -1 .. MaxCursor

\* the angles the model follows: theta within MaxTurn units of its initial
\* value, phi no further than MaxOvershoot units outside the clamp interval
WaterTracked(w) ==
  /\ w.theta \in (WaterThetaInit - MaxTurn) .. (WaterThetaInit + MaxTurn)
  /\ w.phi \in (WaterPhiMin - MaxOvershoot) .. (WaterPhiMax + MaxOvershoot)

\* std::clamp(v, lo, hi)
Clamp(v, lo, hi) == IF v < lo THEN lo ELSE IF hi < v THEN hi ELSE v

WaterOthersUnchanged ==
  UNCHANGED << viewer, camera, event, leftHeld, drag, direct, history, args,
               pc, x, y, z, cellLocals, vertices, normals, io >>

\* mouse_callback(window, xpos, ypos)
WaterMouseCallback ==
  /\ ~water.firstCall                  \* the callback is registered
  /\ \E xpos \in WaterCursorX, ypos \in WaterCursorY :
       \E w \in {IF ~water.rotating THEN water
                  ELSE IF water.lastX < 0 \/ water.lastY < 0
                    THEN [water EXCEPT !.lastX = xpos, !.lastY = ypos]
                  ELSE [water EXCEPT
                          !.lastX = xpos,
                          !.lastY = ypos,
                          !.theta = water.theta - (xpos - water.lastX),
                          !.phi = Clamp(water.phi - (ypos - water.lastY),
                                        WaterPhiMin, WaterPhiMax)]} :
         /\ WaterTracked(w)
         /\ water' = w
  /\ WaterOthersUnchanged

\* mouse_button_callback(window, button, action, mods); glfwGetCursorPos
\* reports the cursor position cx, cy.
WaterMouseButtonCallback ==
  /\ ~water.firstCall                  \* the callback is registered
  /\ \E button \in Buttons, action \in ButtonActions,
        cx \in WaterCursorX, cy \in WaterCursorY :
       water' = IF button # "LEFT" THEN water
                ELSE IF action = "PRESS"
                  THEN [water EXCEPT !.rotating = TRUE, !.lastX = cx, !.lastY = cy]
                ELSE [water EXCEPT !.rotating = FALSE, !.lastX = -1, !.lastY = -1]
  /\ WaterOthersUnchanged

\* theta and phi after the four glfwGetKey tests, keys being the keys held
KeyTheta(w, keys) ==
  w.theta - (IF "LEFT" \in keys THEN WaterKeyStep ELSE 0)
          + (IF "RIGHT" \in keys THEN WaterKeyStep ELSE 0)

KeyPhi(w, keys) ==
  w.phi - (IF "UP" \in keys THEN WaterKeyStep ELSE 0)
        + (IF "DOWN" \in keys THEN WaterKeyStep ELSE 0)

\* cameraControlsGlobe(View, radius): the callbacks are registered on the
\* first call; View is computed from theta and phi and is not kept.
CameraControlsGlobe ==
  /\ \E keys \in SUBSET ArrowKeys :
       \E w \in {[water EXCEPT !.firstCall = FALSE,
                                !.theta = KeyTheta(water, keys),
                                !.phi = KeyPhi(water, keys)]} :
         /\ WaterTracked(w)
         /\ water' = w
  /\ WaterOthersUnchanged

WaterNext ==
  \/ WaterMouseCallback
  \/ WaterMouseButtonCallback
  \/ CameraControlsGlobe

WaterSpecInit ==
  /\ PipelineIdle
  /\ call = NoCall
  /\ result = NoResult
  /\ GuiInit

WaterSpec == WaterSpecInit /\ [][WaterNext]_vars

\* ------------------------------------------------------ MarchingCube viewer
ViewerCursorX == 0 .. 1
ViewerCursorY == 0 .. MaxCursor

CameraTracked(c) ==
  c.theta \in (CameraThetaInit - MaxTurn) .. (CameraThetaInit + MaxTurn)

\* Camera::processMouseMovement(xoffset, yoffset, constrainPitch = true)
processMouseMovement(c, xoffset, yoffset) ==
  LET phi1 == c.phi + yoffset
      phi2 == IF phi1 < CameraMinPhi THEN CameraMinPhi ELSE phi1
      phi3 == IF phi2 > CameraMaxPhi THEN CameraMaxPhi ELSE phi2
  IN  [c EXCEPT !.theta = c.theta + xoffset, !.phi = phi3]

ViewerOthersUnchanged ==
  UNCHANGED << water, direct, history, args,
               pc, x, y, z, cellLocals, vertices, normals, io >>

\* the body of mouse_button_callback on the globals v
ButtonGlobals_NoReseed(v, button, action) ==
  IF button = "LEFT" THEN [v EXCEPT !.mousePressed = (action = "PRESS")] ELSE v

ButtonGlobals(v, button, action) ==
  IF button = "LEFT"
    THEN [v EXCEPT !.mousePressed = (action = "PRESS"),
                   !.firstMouse = IF action = "PRESS" THEN TRUE ELSE @]
    ELSE v

\* mouse_button_callback(window, button, action, mods)
mouse_button_callback ==
  /\ \E button \in Buttons, action \in ButtonActions :
       /\ viewer' = ButtonGlobals(viewer, button, action)
       /\ event' = [kind |-> "button", button |-> button, action |-> action]
       /\ leftHeld' = IF button = "LEFT" THEN action = "PRESS" ELSE leftHeld
       /\ drag' = IF button = "LEFT" /\ action = "PRESS"
                    THEN [events |-> 0,
                          pos |-> << viewer.lastX, viewer.lastY >>,
                          leftover |-> << viewer.lastX, viewer.lastY >>]
                    ELSE drag
  /\ UNCHANGED camera
  /\ ViewerOthersUnchanged

\* cursor_position_callback(window, xpos, ypos)
cursor_position_callback ==
  /\ \E xpos \in ViewerCursorX, ypos \in ViewerCursorY :
       /\ IF ~viewer.mousePressed
            THEN UNCHANGED << viewer, camera >>
            ELSE \E fromX \in {IF viewer.firstMouse THEN xpos ELSE viewer.lastX},
                    fromY \in {IF viewer.firstMouse THEN ypos ELSE viewer.lastY} :
                   \E c \in {processMouseMovement(camera, xpos - fromX, ypos - fromY)} :
                     /\ CameraTracked(c)
                     /\ camera' = c
                     /\ viewer' = [viewer EXCEPT !.lastX = xpos, !.lastY = ypos,
                                                 !.firstMouse = FALSE]
       /\ event' = [kind |-> "cursor", x |-> xpos, y |-> ypos]
       /\ drag' = IF leftHeld
                    THEN [drag EXCEPT !.events = IF @ < 2 THEN @ + 1 ELSE @,
                                      !.pos = << xpos, ypos >>]
                    ELSE drag
  /\ UNCHANGED leftHeld
  /\ ViewerOthersUnchanged

ViewerNext ==
  \/ mouse_button_callback
  \/ cursor_position_callback

ViewerSpecInit ==
  /\ PipelineIdle
  /\ call = NoCall
  /\ result = NoResult
  /\ GuiInit

ViewerSpec == ViewerSpecInit /\ [][ViewerNext]_vars

\* ------------------------------------------------------------------ claims
Returned == pc \notin {"mc_x", "mc_y", "mc_z", "aborted"}

\* entries of a lookup-table row before its first -1
RECURSIVE RowPrefix(_, _)
RowPrefix(row, k) ==
  IF k > Len(row) \/ row[k] = -1 THEN << >>
  ELSE <<row[k]>> \o RowPrefix(row, k + 1)

RowEdges(row) == RowPrefix(row, 1)

\* C1: the flat vertex sequence built by marching_cubes always holds whole
\* triangles, so the sequence it returns has a length that is a multiple of 9
\* (a vertex count that is a multiple of 3).
C1_WholeTriangles == Len(vertices) % 9 = 0

C1_Witness ==
  /\ pc = "normals"
  /\ cellStart > 0
  /\ Len(vertices) > cellStart

\* C2: the configuration index of a cell has bit i set exactly when
\* val[i] < isovalue (strictly), so a sample equal to the isovalue leaves its
\* bit clear, and the index lies in 0..255.
C2_CubeIndexBits ==
  sampled =>
    /\ cubeIndex \in 0 .. 255
    /\ \A i \in 0 .. 7 : (Bit(cubeIndex, i) = 1) <=> RLt[val[i], Num(isovalue)]
    /\ \A i \in 0 .. 7 : val[i] = Num(isovalue) => Bit(cubeIndex, i) = 0

C2_Witness ==
  /\ sampled
  /\ \E i \in 0 .. 7 : val[i] = Num(isovalue)
  /\ \E i \in 0 .. 7 : RLt[val[i], Num(isovalue)]

\* C3: on a vertex sequence whose length is a multiple of 9, compute_normals
\* returns a sequence of the same length, in which the three normals of each
\* triangle are one vector repeated three times.
C3_FlatNormals ==
  (pc \in {"ply_open", "ply_header", "ply_body", "ply_close", "upload"}
     /\ Len(vertices) % 9 = 0) =>
    /\ Len(normals) = Len(vertices)
    /\ \A k \in 0 .. (Len(normals) \div 9) :
         9 * k + 9 <= Len(normals) =>
           /\ SubSeq(normals, 9 * k + 4, 9 * k + 6) = SubSeq(normals, 9 * k + 1, 9 * k + 3)
           /\ SubSeq(normals, 9 * k + 7, 9 * k + 9) = SubSeq(normals, 9 * k + 1, 9 * k + 3)

C3_Witness ==
  /\ pc = "ply_open"
  /\ Len(normals) >= 18
  /\ SubSeq(normals, 1, 3) # SubSeq(normals, 10, 12)

\* C4: after a write that opened the file, the count declared by the
\* "element vertex" header line is vertices.length / 3 and exactly that many
\* vertex lines follow end_header.
C4_HeaderCount ==
  (pc = "upload" /\ cout # << >>) =>
    /\ HeaderCount(fileLines) = Len(vertices) \div 3
    /\ Len(BodyLines(fileLines)) = HeaderCount(fileLines)
    /\ 3 * Len(BodyLines(fileLines)) = Len(vertices)

C4_Witness ==
  /\ pc = "upload"
  /\ cout # << >>
  /\ HeaderCount(fileLines) >= 12

\* C5: when the file cannot be opened, write_ply writes one diagnostic,
\* writes no line to the file, leaves vertices and normals as they were and
\* returns to main.
C5_OpenFailure ==
  [][(pc = "ply_open" /\ ~fileOpen') =>
       /\ pc' = "upload"
       /\ cerr' = Append(cerr, <<"Failed to open file: ", Filename>>)
       /\ fileLines' = fileLines
       /\ fileLines = << >>
       /\ cout' = cout
       /\ vertices' = vertices
       /\ normals' = normals]_vars

C5_Witness ==
  /\ pc = "upload"
  /\ cerr # << >>
  /\ fileLines = << >>
  /\ Len(vertices) > 0

LastCellPoints ==
  [k \in 1 .. ((Len(vertices) - cellStart) \div 3) |->
     << vertices[cellStart + 3 * k - 2], vertices[cellStart + 3 * k - 1],
        vertices[cellStart + 3 * k] >>]

InCellBox(p) ==
  \A c \in 1 .. 3 : RLeq[Num(pos[0][c]), p[c]] /\ RLeq[p[c], Num(pos[6][c])]

EdgesStraddle ==
  \A k \in 1 .. Len(RowEdges(LutRow(cubeIndex))) :
    LET e == LutRow(cubeIndex)[k]
        a == val[edgeConnections[e + 1][1]]
        b == val[edgeConnections[e + 1][2]]
    IN  /\ a # b
        /\ \/ RLt[a, Num(isovalue)] /\ RLeq[Num(isovalue), b]
           \/ RLt[b, Num(isovalue)] /\ RLeq[Num(isovalue), a]

AllPointsInBox == \A k \in 1 .. Len(LastCellPoints) : InCellBox(LastCellPoints[k])

\* C7 (as stated): with stepsize > 0, every edge used by the row of a cell
\* has one endpoint below the isovalue and the other at or above it, and
\* every vertex emitted for the cell lies in the closed box of the cell.
C7_InBoxAnyField ==
  (sampled /\ stepsize > 0) => (EdgesStraddle /\ AllPointsInBox)

SamplesFinite == \A i \in 0 .. 7 : IsFinite(val[i])

\* along every edge of the cell, p2 - p1 is computed without rounding error
EdgeDifferencesExact ==
  \A e \in 1 .. 12 : \A c \in 1 .. 3 :
    LET p1 == pos[edgeConnections[e][1]]
        p2 == pos[edgeConnections[e][2]]
    IN  FSub(p2[c], p1[c]) = p2[c] - p1[c]

\* C7 (amended): for a cell whose eight samples are finite numbers the edges
\* used straddle the isovalue, and when moreover the corner differences are
\* computed exactly every emitted vertex lies in the closed box of the cell.
C7_InBoxFiniteSamples ==
  (sampled /\ stepsize > 0 /\ SamplesFinite) =>
    /\ EdgesStraddle
    /\ EdgeDifferencesExact => AllPointsInBox

C7_Witness ==
  /\ sampled
  /\ stepsize > 0
  /\ SamplesFinite
  /\ EdgeDifferencesExact
  /\ Len(LastCellPoints) = 15
  /\ \E k \in 1 .. 15 : \E c \in 1 .. 3 :
       RLt[Num(pos[0][c]), LastCellPoints[k][c]] /\ RLt[LastCellPoints[k][c], Num(pos[6][c])]

\* C8: when every sample taken is strictly below the isovalue, marching_cubes
\* returns an empty sequence.
C8_AllBelowEmpty == (Returned /\ allBelow) => vertices = << >>

C8_Witness ==
  /\ pc = "normals"
  /\ allBelow
  /\ sampled
  /\ cubeIndex = 255
  /\ f.pat # 0

\* C9: with max <= min no cell is visited, the field is never called, and
\* the empty sequence is returned without a fault, whatever the step.
C9_EmptyDomain ==
  max <= min =>
    /\ pc \notin {"mc_y", "mc_z", "aborted"}
    /\ ~sampled
    /\ vertices = << >>
    /\ ~oob

C9_Witness ==
  /\ max <= min
  /\ stepsize <= 0
  /\ pc = "normals"

\* every coordinate the loops can hold below max is moved up by += stepsize
StepAdvances ==
  \A c \in min .. (max - 1) : RoundF[c] = c => FAdd(c, stepsize) > c

\* C10 (as stated): traversal always runs to completion and returns.
C10_AlwaysCompletes == <>Returned

\* C10 (amended): when stepsize > 0 and adding it to any coordinate in
\* [min, max) gives a larger float, traversal leaves its three loops: it
\* returns the sequence, unless growing the sequence exhausts memory.
C10_CompletesWhenAdvancing ==
  (stepsize > 0 /\ StepAdvances) => <>(Returned \/ pc = "aborted")

C10_Witness ==
  /\ pc = "normals"
  /\ stepsize > 0
  /\ StepAdvances
  /\ max > min
  /\ cellStart > 0

\* write_ply is running: between its entry and its return to main
InWritePly == pc \in {"ply_header", "ply_body", "ply_close"}

\* C11: write_ply returns with the file handle closed on both of its exit
\* paths (the early return after a failed open and the normal return), and
\* during a successful write the handle is open at every step that writes a
\* line, from the first header line to the last vertex line.
C11_HandleLifecycle ==
  [][/\ (pc \in {"ply_open", "ply_header", "ply_body", "ply_close"} /\ pc' = "upload")
          => ~fileOpen'
     /\ InWritePly => fileOpen
     /\ (fileLines' # fileLines) => (fileOpen /\ fileOpen')
     /\ (pc = "ply_open" /\ pc' = "ply_header") => fileOpen']_vars

C11_Witness ==
  /\ pc = "upload"
  /\ ~fileOpen
  /\ cout # << >>
  /\ Len(BodyLines(fileLines)) >= 3

\* a point with float coordinates, as interpolateVertex returns it
AsVec(p) == << Num(p[1]), Num(p[2]), Num(p[3]) >>

InterpReturned == call.fn = "interpolateVertex" /\ result # NoResult

\* p2 - p1 is computed without rounding error in every component
DifferenceExact == \A c \in 1 .. 3 : FSub(call.p2[c], call.p1[c]) = call.p2[c] - call.p1[c]

\* the isovalue lies beyond valp2, seen from valp1: t > 1
BeyondValp2 ==
  \/ call.valp1 < call.valp2 /\ call.valp2 < call.isovalue
  \/ call.valp1 > call.valp2 /\ call.valp2 > call.isovalue

\* C12 (as stated): for any p1, p2 and valp1 # valp2, interpolateVertex
\* returns p1 when the isovalue equals valp1 and p2 when it equals valp2.
C12_ExactAtBothEnds ==
  (InterpReturned /\ call.valp1 # call.valp2) =>
    /\ call.isovalue = call.valp1 => result = AsVec(call.p1)
    /\ call.isovalue = call.valp2 => result = AsVec(call.p2)

\* C12 (amended): with valp1 # valp2, an isovalue equal to valp1 returns p1;
\* an isovalue equal to valp2 returns p2 when the float subtraction p2 - p1
\* is exact in every component; and t is not clamped: for an isovalue
\* beyond valp2 the result is not pulled back between p1 and p2.
C12_ExactWhenDifferenceExact ==
  (InterpReturned /\ call.valp1 # call.valp2) =>
    /\ call.isovalue = call.valp1 => result = AsVec(call.p1)
    /\ (call.isovalue = call.valp2 /\ DifferenceExact) => result = AsVec(call.p2)
    /\ (BeyondValp2 /\ DifferenceExact) =>
         \A c \in 1 .. 3 :
           /\ call.p1[c] < call.p2[c] => RLeq[Num(call.p2[c]), result[c]]
           /\ call.p1[c] > call.p2[c] => RLeq[result[c], Num(call.p2[c])]

C12_Witness ==
  /\ InterpReturned
  /\ call.valp1 = 0
  /\ call.valp2 = 1
  /\ call.isovalue = 1
  /\ call.p1[1] < 0
  /\ call.p2[1] > 0
  /\ call.p1[2] # call.p2[2]
  /\ DifferenceExact
  /\ result = AsVec(call.p2)

NormalsReturned == call.fn = "compute_normals" /\ result # NoResult

\* vertex j (0, 1, 2) of triangle k of the call, as integer coordinates
CallVertex(k, j) ==
  [c \in 1 .. 3 |-> call.vertices[9 * k + 3 * j + c][1]]

\* cross(v1 - v0, v2 - v0) of triangle k, in integers
IntCross(k) ==
  LET a == [c \in 1 .. 3 |-> CallVertex(k, 1)[c] - CallVertex(k, 0)[c]]
      b == [c \in 1 .. 3 |-> CallVertex(k, 2)[c] - CallVertex(k, 0)[c]]
  IN  << a[2] * b[3] - a[3] * b[2], a[3] * b[1] - a[1] * b[3],
         a[1] * b[2] - a[2] * b[1] >>

\* n, with components <<p, l>> standing for p / sqrt(l), has length 1 and
\* points along the non-zero integer vector w
IsUnitAlong(n, w) ==
  /\ n[1][2] = n[2][2] /\ n[2][2] = n[3][2]
  /\ n[1][1] * n[1][1] + n[2][1] * n[2][1] + n[3][1] * n[3][1] = n[1][2]
  /\ n[2][1] * w[3] - n[3][1] * w[2] = 0
  /\ n[3][1] * w[1] - n[1][1] * w[3] = 0
  /\ n[1][1] * w[2] - n[2][1] * w[1] = 0
  /\ n[1][1] * w[1] + n[2][1] * w[2] + n[3][1] * w[3] > 0

UnitTriangle == Tri(<<0, 0, 0>>, <<1, 0, 0>>, <<0, 1, 0>>)
UpNormal == << <<0, 1>>, <<0, 1>>, <<1, 1>> >>

AccumExact == \A c \in AccumCoords : FAdd(c, stepsize) = c + stepsize

\* the coordinates min + i * stepsize below max, and the cells made of them
IdealCoords == {c \in min .. (max - 1) : (c - min) % stepsize = 0}
IdealCells == IdealCoords \X IdealCoords \X IdealCoords

CellsInDomain == \A o \in visited : \A c \in 1 .. 3 : min <= o[c] /\ o[c] < max

\* C14 (as stated): with stepsize > 0 and max > min the traversal has
\* processed, when it returns, exactly the cells of origin
\* min + (i, j, k) * stepsize below max, each once, and never a cell with an
\* origin coordinate outside [min, max).
C14_ExactGrid ==
  (stepsize > 0 /\ max > min) =>
    /\ CellsInDomain
    /\ pc = "normals" => (visited = IdealCells /\ ~revisited)

\* C14 (amended): with stepsize > 0 and max > min every processed cell has
\* its origin coordinates in [min, max), each of them one of the floats
\* accumulated from min by += stepsize; when the traversal returns it has
\* processed every combination of these coordinates exactly once; they are
\* the coordinates min + i * stepsize when no addition rounds.
C14_AccumulatedGrid ==
  (stepsize > 0 /\ max > min) =>
    /\ CellsInDomain
    /\ visited \subseteq AccumCells
    /\ pc = "normals" => (visited = AccumCells /\ ~revisited)
    /\ (pc = "normals" /\ AccumExact) => visited = IdealCells

C14_Witness ==
  /\ pc = "normals"
  /\ stepsize > 0
  /\ max > min
  /\ ~AccumExact
  /\ Cardinality(visited) = 8
  /\ visited # IdealCells

\* the triangles the reference traversal emits for the cell at origin o
CellTriangles(o) ==
  LET ps == CornerPos(o, stepsize)
  IN  CellOutput(ps, CornerVal(f, ps), isovalue)

\* the reference traversal: x outer, y middle, z inner
RECURSIVE ReferenceZ(_, _, _)
ReferenceZ(cx, cy, cz) ==
  IF ~(cz < max) THEN << >>
  ELSE CellTriangles(<<cx, cy, cz>>) \o ReferenceZ(cx, cy, FAdd(cz, stepsize))

RECURSIVE ReferenceY(_, _)
ReferenceY(cx, cy) ==
  IF ~(cy < max) THEN << >>
  ELSE ReferenceZ(cx, cy, min) \o ReferenceY(cx, FAdd(cy, stepsize))

RECURSIVE ReferenceX(_)
ReferenceX(cx) ==
  IF ~(cx < max) THEN << >>
  ELSE ReferenceY(cx, min) \o ReferenceX(FAdd(cx, stepsize))

ReferenceVertices == ReferenceX(min)

\* a precedes b in the lexicographic order of (x, y, z)
LexLess(a, b) ==
  \/ a[1] < b[1]
  \/ a[1] = b[1] /\ a[2] < b[2]
  \/ a[1] = b[1] /\ a[2] = b[2] /\ a[3] < b[3]

\* no triangle of a cell comes after a triangle of a lexicographically
\* larger cell: along the sequence the owning cell never decreases
OwnerSorted ==
  \A i \in 1 .. Len(owner) - 1 : ~LexLess(owner[i + 1], owner[i])

\* the vertices of the last cell are the edge vertices named by its table
\* row, entry by entry
LastCellInRowOrder ==
  LET row == RowEdges(LutRow(cubeIndex))
      ev  == EdgeVertex(pos, val, isovalue)
  IN  /\ Len(LastCellPoints) = Len(row)
      /\ \A k \in 1 .. Len(row) : LastCellPoints[k] = ev[row[k]]

\* C15: the cell being processed is never lexicographically smaller than a
\* cell processed before it (x outer, y middle, z inner); in the sequence
\* built with stepsize > 0, and in every sequence returned, the vertices of a
\* cell precede those of every lexicographically larger cell; and the
\* vertices a cell has just appended are in the order of its lookup-table
\* row, so that the sequence returned is the concatenation, in nested loop
\* order, of the triangles of each cell.
C15_TraversalOrder ==
  /\ (sampled /\ stepsize > 0) => \A o \in visited : ~LexLess(pos[0], o)
  /\ (Returned \/ stepsize > 0) => (OwnerSorted /\ 9 * Len(owner) = Len(vertices))
  /\ pc = "mc_z" /\ sampled => LastCellInRowOrder
  /\ pc = "normals" => vertices = ReferenceVertices

C15_Witness ==
  /\ pc = "normals"
  /\ Cardinality({owner[i] : i \in 1 .. Len(owner)}) >= 4
  /\ owner[1][1] < pos[0][1]
  /\ Len(LastCellPoints) >= 6
  /\ LastCellPoints[1] # LastCellPoints[4]

\* triangle k (1-based) of a flat sequence, and how often a triangle occurs
TriangleAt(vs, k) == SubSeq(vs, 9 * k - 8, 9 * k)
TriangleCount(vs, t) == Cardinality({k \in 1 .. (Len(vs) \div 9) : TriangleAt(vs, k) = t})

SameTriangles(vs, ws) ==
  /\ Len(vs) = Len(ws)
  /\ \A k \in 1 .. (Len(vs) \div 9) :
       TriangleCount(vs, TriangleAt(vs, k)) = TriangleCount(ws, TriangleAt(vs, k))

\* the triangles of vertices that cell o appended, in order
RECURSIVE OwnedFrom(_, _)
OwnedFrom(o, k) ==
  IF k > Len(owner) THEN << >>
  ELSE (IF owner[k] = o THEN TriangleAt(vertices, k) ELSE << >>) \o OwnedFrom(o, k + 1)

\* C16: whatever the order in which the cells are taken, the triangles a
\* cell appends are those the reference traversal emits for that cell, and
\* once every cell of the reference traversal has been taken the sequence
\* holds the same triangles, as an unordered collection, as the sequence of
\* the reference traversal.
C16_OrderIndependent ==
  pc = "any_order" =>
    /\ \A o \in visited : OwnedFrom(o, 1) = CellTriangles(o)
    /\ visited = AccumCells => SameTriangles(vertices, ReferenceVertices)

C16_Witness ==
  /\ pc = "any_order"
  /\ visited = AccumCells
  /\ Len(owner) >= 8
  /\ ~OwnerSorted
  /\ vertices # ReferenceVertices

\* the offsets of corners a and b (0-based) differ in exactly one coordinate
Adjacent(a, b) ==
  Cardinality({c \in 1 .. 3 : cubeVerts[a + 1][c] # cubeVerts[b + 1][c]}) = 1

EdgePairs == {{edgeConnections[e][1], edgeConnections[e][2]} : e \in 1 .. Len(edgeConnections)}

CubeEdges == {{a, b} : a \in 0 .. 7, b \in 0 .. 7} \cap {p \in SUBSET (0 .. 7) :
                \E a \in p : \E b \in p : Adjacent(a, b) /\ p = {a, b}}

\* C17: edgeConnections has 12 entries, which are 12 distinct pairs of
\* corner indices in 0..7; in the corner ordering (0,0,0), (1,0,0), (1,0,1),
\* (0,0,1), (0,1,0), (1,1,0), (1,1,1), (0,1,1) the two corners of every pair
\* differ in exactly one coordinate, and the pairs are all 12 edges of the
\* unit cube; the end corners of every edge of a processed cell therefore
\* differ along one axis at most.
C17_CubeEdges ==
  /\ cubeVerts = << <<0,0,0>>, <<1,0,0>>, <<1,0,1>>, <<0,0,1>>,
                    <<0,1,0>>, <<1,1,0>>, <<1,1,1>>, <<0,1,1>> >>
  /\ Len(edgeConnections) = 12
  /\ \A e \in 1 .. 12 :
       /\ edgeConnections[e][1] \in 0 .. 7
       /\ edgeConnections[e][2] \in 0 .. 7
       /\ Adjacent(edgeConnections[e][1], edgeConnections[e][2])
  /\ Cardinality(EdgePairs) = 12
  /\ Cardinality(CubeEdges) = 12
  /\ EdgePairs = CubeEdges
  /\ sampled =>
       \A e \in 1 .. 12 :
         Cardinality({c \in 1 .. 3 : pos[edgeConnections[e][1]][c]
                                       # pos[edgeConnections[e][2]][c]}) <= 1

\* a cell whose triangle was interpolated along three edges of the list
C17_Witness ==
  /\ sampled
  /\ cubeIndex = 2
  /\ Len(LastCellPoints) = 3
  /\ \A k \in 1 .. 3 : InCellBox(LastCellPoints[k])

\* C18: in the pipeline of main no read of compute_normals or write_ply
\* falls outside its array: when compute_normals is about to run every
\* triangle start i (a multiple of 9 below vertices.size()) has i + 8 inside
\* vertices, and when write_ply is about to write its body every vertex index
\* i below vertices.size() / 3 has 3i + 2 inside vertices and inside normals.
C18_ReadsInBounds ==
  /\ ~oob
  /\ pc = "normals" =>
       \A i \in 0 .. Len(vertices) :
         (i % 9 = 0 /\ i < Len(vertices)) => i + 8 <= Len(vertices) - 1
  /\ pc = "ply_body" =>
       \A i \in 0 .. (Len(vertices) \div 3) - 1 :
         /\ 3 * i + 2 <= Len(vertices) - 1
         /\ 3 * i + 2 <= Len(normals) - 1

C18_Witness ==
  /\ pc = "upload"
  /\ ~oob
  /\ Len(vertices) >= 18
  /\ Len(fileLines) = 10 + Len(vertices) \div 3

\* C19: in every state of the Water camera reachable by mouse_button_callback,
\* mouse_callback and cameraControlsGlobe calls, phi lies in
\* [0.1, radians(179.9)].
C19_PhiClamped == water.phi \in WaterPhiMin .. WaterPhiMax

\* C20: in the MarchingCube viewer, whatever mouse-button and cursor events
\* arrive, theta and phi change only in a cursor event received while the left
\* button is held; the first cursor event after a left-button press leaves
\* them unchanged and sets lastX/lastY to its own position; and every later
\* cursor event of the drag turns the camera by its offset from the previous
\* cursor event of the same drag, never from a position left by an earlier one.
Orientation == << camera.theta, camera.phi >>

CursorWhileHeld == event'.kind = "cursor" /\ leftHeld

C20_DragRotation ==
  [][ /\ Orientation' # Orientation => CursorWhileHeld
      /\ (CursorWhileHeld /\ drag.events = 0) =>
           /\ Orientation' = Orientation
           /\ viewer'.lastX = event'.x
           /\ viewer'.lastY = event'.y
      /\ (CursorWhileHeld /\ drag.events > 0) =>
           /\ camera'.theta = camera.theta + (event'.x - drag.pos[1])
           /\ camera'.phi = Clamp(camera.phi + (event'.y - drag.pos[2]),
                                  CameraMinPhi, CameraMaxPhi)
    ]_vars

\* a second drag has begun away from where the first one, which turned the
\* camera, left the cursor, and its first cursor event has been handled
C20_Witness ==
  /\ leftHeld
  /\ event.kind = "cursor"
  /\ drag.events = 1
  /\ drag.leftover # << event.x, event.y >>
  /\ Orientation # << CameraThetaInit, CameraPhiInit >>
  /\ viewer.lastX = event.x
  /\ viewer.lastY = event.y
====
